---- MODULE Spec2Model ----
(***************************************************************************)
(* Model of pwnlib/ui.py: the prompt functions and the pagers, each as the *)
(* state machine its blocking reads cut it into.  A behaviour is one call  *)
(* of one function: Init is the state at the call (function, terminal mode *)
(* and arguments chosen), the action named after the function runs it up   *)
(* to its first blocking read, and every later action is one read (a key   *)
(* or an input line) with all the code that follows it up to the next read *)
(* or to the return.                                                       *)
(***************************************************************************)
EXTENDS Integers, Sequences, FiniteSets, TLC

\* ------------------------------------------------------------------ bounds
\* options(): at most this many options (two-digit numbers need >= 10)
MaxOpts == 10
\* more()/less(): the text has at most this many characters
MaxText == 5
\* term.height ranges over 1..MaxHeight
MaxHeight == 3
\* raw_input(): a line has at most this many characters
MaxLine == 2
\* yesno(), ask(), askpass(): at most this many prompts are retried
MaxTries == 4

\* ------------------------------------------------------- Python's values
\* None and an optional value: None is <<>>, a value v is <<v>>
None == <<>>
Some(v) == <<v>>
Val(o) == o[1]
\* an argument of a type that the function's isinstance check rejects
Wrong == <<"wrong", "type">>

Max(a, b) == IF a >= b THEN a ELSE b
Min(a, b) == IF a <= b THEN a ELSE b

Digits == {"0", "1", "2", "3", "4", "5", "6", "7", "8", "9"}

DigitVal(c) ==
    CASE c = "0" -> 0 [] c = "1" -> 1 [] c = "2" -> 2 [] c = "3" -> 3
      [] c = "4" -> 4 [] c = "5" -> 5 [] c = "6" -> 6 [] c = "7" -> 7
      [] c = "8" -> 8 [] c = "9" -> 9

\* int(s) of a string succeeds on a non-empty string of decimal digits
\* (the model's strings hold no sign and no blank); otherwise ValueError
int_ok(s) == Len(s) > 0 /\ \A j \in 1..Len(s) : s[j] \in Digits

RECURSIVE int(_)
int(s) == IF Len(s) = 0 THEN 0
          ELSE 10 * int(SubSeq(s, 1, Len(s) - 1)) + DigitVal(s[Len(s)])

\* seq[start:end] for start >= 0: a negative end counts from the end
PySlice(seq, start, end) ==
    LET n == Len(seq)
        e == IF end < 0 THEN Max(0, n + end) ELSE Min(end, n)
    IN  IF start >= e THEN <<>> ELSE SubSeq(seq, start + 1, e)

\* seq[idx] is an IndexError outside -len..len-1; PyPos is its 1-based place
PyIndexOk(n, idx) == idx >= -n /\ idx <= n - 1
PyPos(n, idx) == IF idx >= 0 THEN idx + 1 ELSE n + idx + 1

\* the keys term.key.get() may deliver
Keys == Digits \cup {"<up>", "<down>", "C-<up>", "C-<down>", "<enter>",
                     "<right>", "<left>", "<space>", "<backspace>",
                     "<escape>", "q", "x"}

VARIABLES
    fn,          \* the function called (highlight() goes on to a pager)
    term_mode,   \* term.term_mode
    pc,          \* "call", "key" (in term.key.get), "line" (in raw_input
                 \* or getpass), "retry" (ask(), askpass(): in the read of
                 \* the loop), "done" (returned), "raised" (left by an
                 \* exception)
    ret,         \* the value returned: None, or Some(value)
    exc,         \* the exception raised, "" for none
    k,           \* the key last read, "" before the first
    line,        \* the line last read by raw_input
    opts,        \* options(): the option labels
    default,     \* options(): None or Some(int); yesno(): None or
                 \* Some(boolean); ask(), askpass(): None or Some(string)
    required,    \* ask(), askpass(): None or Some(boolean)
    cur,         \* options(): the selection, None or Some(index);
                 \* yesno(): the selection, None or Some(boolean)
    hy, hn,      \* yesno(): the texts shown for yes and for no
    twin,        \* askpass() run beside ask() on the same lines: its pc,
                 \* ret, exc, i and out
    src,         \* highlight(): the content of the file
    lexer,       \* highlight(): what guess_lexer(src) does, "found" or
                 \* "ClassNotFound"
    TERM,        \* highlight(): environ['TERM'], None when unset
    mode,        \* highlight(): None or Some(string)
    ds,          \* options(): the numeric buffer, a string of digits
    hs,          \* options(): the marker shown before each option
    text,        \* more(), less(): the text, a string of "a" and "\n"
    height,      \* term.height
    filename,    \* less(): None or Some(name)
    lines,       \* more(), less(): text.split('\n')
    step,        \* more(), less(): term.height - 1
    i,           \* more(): the loop variable; ask(): the cue counter
    cursor,      \* less()
    cursor_max,  \* less()
    content,     \* less(): the text of the content region
    footer,      \* more(), less(): the text of the footer region
    floats,      \* the floating regions that exist (created, not deleted)
    seen,        \* less(): the indices of the lines shown in a frame so far
    out          \* the prints, the prompts and the key reads, in order

vars == <<fn, term_mode, pc, ret, exc, k, line, opts, default, required,
          cur, ds, hs, hy, hn, twin, src, lexer, TERM, mode, text, height, filename, lines, step, i, cursor, cursor_max,
          content, footer, floats, seen, out>>

ctlVars == <<fn, term_mode>>
optVars == <<opts, default, cur, ds, hs>>
promptVars == <<required, hy, hn, twin>>
hlVars == <<src, lexer, TERM, mode>>
\* the arguments of the pagers, and the state of the other functions
argVars == <<text, height, filename, promptVars, hlVars>>
pagerVars == <<lines, step, i, cursor, cursor_max, content, footer, floats,
               seen>>

\* ------------------------------------------------------------ the inputs
RECURSIVE Strings(_, _)
Strings(alphabet, n) ==
    IF n = 0 THEN {<<>>}
    ELSE LET shorter == Strings(alphabet, n - 1)
         IN  shorter \cup {Append(s, c) : s \in shorter, c \in alphabet}

Texts == Strings({"a", "\n"}, MaxText)
LineChars == {"0", "1", "2", "x"}
Lines == Strings(LineChars, MaxLine)
OptLists == {[j \in 1..n |-> j] : n \in 1..MaxOpts}
Defaults(o) == {None} \cup {Some(d) : d \in -1..Len(o)}

\* highlight(): the contents of the file, environ['TERM'] (None when unset)
\* and the mode argument
Sources == {<<>>, <<"a">>, <<"a", "\n", "a">>}
Terms == {None, Some("xterm-256color"), Some("vt100")}
Modes == {None, Some("more"), Some("less"), Some("raw")}

\* -------------------------------------------------------------- the call
Functions == {"options", "less", "more", "yesno", "ask", "askpass",
              "ask+askpass", "highlight"}
AskFunctions == {"ask", "askpass", "ask+askpass"}

Init ==
    /\ fn \in Functions
    /\ term_mode \in BOOLEAN
    /\ pc = "call"
    /\ ret = None /\ exc = "" /\ k = "" /\ line = <<>>
    /\ opts \in (IF fn = "options" THEN OptLists ELSE {<<>>})
    /\ default \in (CASE fn = "options" -> Defaults(opts) \cup {Wrong}
                      [] fn = "yesno" ->
                           {None, Some(TRUE), Some(FALSE), Wrong}
                      [] fn \in AskFunctions ->
                           {None, Some(<<>>), Some(<<"d">>)}
                      [] OTHER -> {None})
    /\ required \in (IF fn \in AskFunctions
                     THEN {None, Some(TRUE), Some(FALSE), Wrong}
                     ELSE {None})
    /\ text \in (IF fn \in {"less", "more"} THEN Texts ELSE {<<>>})
    /\ height \in (IF fn \in {"less", "more", "highlight"}
                   THEN 1..MaxHeight ELSE {1})
    /\ filename \in (IF fn = "less" THEN {None, Some("f")} ELSE {None})
    /\ src \in (IF fn = "highlight" THEN Sources ELSE {<<>>})
    /\ lexer \in (IF fn = "highlight" THEN {"found", "ClassNotFound"}
                  ELSE {"found"})
    /\ TERM \in (IF fn = "highlight" THEN Terms ELSE {None})
    /\ mode \in (IF fn = "highlight" THEN Modes ELSE {None})
    /\ cur = None /\ ds = <<>> /\ hs = <<>> /\ hy = <<>> /\ hn = <<>>
    /\ twin = [pc |-> "call", ret |-> None, exc |-> "", i |-> 0, out |-> <<>>]
    /\ lines = <<>> /\ step = 0 /\ i = 0 /\ cursor = 0 /\ cursor_max = 0
    /\ content = <<>> /\ footer = <<>> /\ floats = {} /\ seen = {}
    /\ out = <<>>

\* ---------------------------------------------------------------- options
space == <<"       ">>
arrow == <<"    => ">>
\* '%5s> ' % ds: the numeric buffer echoed as the marker
digits_marker(buf) == buf \o <<"> ">>

\* isinstance(default, (int, long, types.NoneType))
options_default_ok(d) == d # Wrong

\* options(), up to the first read
options ==
    /\ fn = "options" /\ pc = "call"
    /\ IF ~options_default_ok(default)
       THEN /\ pc' = "raised" /\ exc' = "ValueError"
            /\ UNCHANGED <<hs, cur, ds>>
       ELSE IF term_mode
       THEN /\ hs' = [j \in 1..Len(opts) |->
                        IF Some(j - 1) = default THEN arrow ELSE space]
            /\ cur' = default
            /\ ds' = <<>>
            /\ pc' = "key" /\ exc' = exc
       ELSE /\ pc' = "line" /\ exc' = exc
            /\ UNCHANGED <<hs, cur, ds>>
    /\ UNCHANGED <<ctlVars, ret, k, line, opts, default, argVars,
                   pagerVars, out>>

\* a variant of arrow_cur whose <down> is not clamped to the last option
arrow_cur_unclamped(key, c, n) ==
    CASE key = "<up>" ->
           IF c = None THEN Some(0) ELSE Some(Max(0, Val(c) - 1))
      [] key = "<down>" ->
           IF c = None THEN Some(0) ELSE Some(Val(c) + 1)
      [] key = "C-<up>" -> Some(0)
      [] key = "C-<down>" -> Some(n - 1)
      [] OTHER -> c

\* the arrow and ctrl-arrow keys: the selection they leave
arrow_cur(key, c, n) ==
    CASE key = "<up>" ->
           IF c = None THEN Some(0) ELSE Some(Max(0, Val(c) - 1))
      [] key = "<down>" ->
           IF c = None THEN Some(0) ELSE Some(Min(n - 1, Val(c) + 1))
      [] key = "C-<up>" -> Some(0)
      [] key = "C-<down>" -> Some(n - 1)
      [] OTHER -> c

\* a variant of options_commit that returns with no selection set
options_commit_any(key, c) == key \in {"<enter>", "<right>"}

\* whether a key makes options() return the selection c
options_commit(key, c) == key \in {"<enter>", "<right>"} /\ c # None

\* a variant of digit_ds that never appends: every digit but 0 restarts
digit_ds_restart(buf, d, n_opts) == IF d # "0" THEN <<d>> ELSE buf

\* a digit key d: the numeric buffer it leaves
digit_ds(buf, d, n_opts) ==
    LET n == int(buf \o <<d>>)
    IN  IF n > 0 /\ n <= n_opts THEN buf \o <<d>>
        ELSE IF d # "0" THEN <<d>>
        ELSE buf

\* the redraw after a key: hs[prev] is blanked, then hs[cur] is marked; an
\* index outside the list raises IndexError where it is used
redraw(h, prev, c, was_digit, buf) ==
    IF prev = c THEN [hs |-> h, err |-> FALSE]
    ELSE LET n == Len(h)
             blank == prev # None
             h1 == IF blank /\ PyIndexOk(n, Val(prev))
                   THEN [h EXCEPT ![PyPos(n, Val(prev))] = space]
                   ELSE h
         IN  IF blank /\ ~PyIndexOk(n, Val(prev))
             THEN [hs |-> h, err |-> TRUE]
             ELSE IF ~PyIndexOk(n, Val(c))
             THEN [hs |-> h1, err |-> TRUE]
             ELSE [hs |-> [h1 EXCEPT ![PyPos(n, Val(c))] =
                             IF was_digit THEN digits_marker(buf) ELSE arrow],
                   err |-> FALSE]

\* one pass of the interactive loop: the key read and all that follows it
options_key(key) ==
    /\ fn = "options" /\ term_mode /\ pc = "key"
    /\ k' = key
    /\ LET n == Len(opts)
           prev == cur
           was_digit == key \in Digits
           commit == options_commit(key, cur)
           ds1 == IF was_digit THEN digit_ds(ds, key, n) ELSE ds
           cur1 == IF was_digit THEN Some(int(ds1) - 1)
                   ELSE arrow_cur(key, cur, n)
           shown == redraw(hs, prev, cur1, was_digit, ds1)
       IN  IF commit
           THEN /\ pc' = "done" /\ ret' = cur
                /\ UNCHANGED <<exc, cur, ds, hs>>
           ELSE IF was_digit /\ ~int_ok(ds1)
           THEN /\ pc' = "raised" /\ exc' = "ValueError"
                /\ ds' = ds1
                /\ UNCHANGED <<ret, cur, hs>>
           ELSE /\ cur' = cur1 /\ ds' = ds1 /\ hs' = shown.hs
                /\ pc' = IF shown.err THEN "raised" ELSE "key"
                /\ exc' = IF shown.err THEN "IndexError" ELSE exc
                /\ ret' = ret
    /\ UNCHANGED <<ctlVars, line, opts, default, argVars, pagerVars, out>>

\* one pass of the non-interactive loop: the line read and what follows it
options_line(l) ==
    /\ fn = "options" /\ ~term_mode /\ pc = "line"
    /\ line' = l
    /\ LET \* raw_input(s) or default
           fromLine == l # <<>>
           \* int(...): ValueError on a non-number, TypeError on None
           x_ok == IF fromLine THEN int_ok(l) ELSE default # None
           x == IF fromLine THEN int(l) ELSE Val(default)
       IN  IF x_ok /\ x >= 1 /\ x <= Len(opts)
           THEN pc' = "done" /\ ret' = Some(x)
           ELSE UNCHANGED <<pc, ret>>
    /\ UNCHANGED <<ctlVars, exc, k, optVars, argVars, pagerVars, out>>

\* ------------------------------------------------------------- the pagers
Newline == "\n"

\* text.split('\n')
RECURSIVE split(_)
split(t) ==
    IF \A j \in 1..Len(t) : t[j] # Newline THEN <<t>>
    ELSE LET p == CHOOSE j \in 1..Len(t) :
                    t[j] = Newline /\ \A h \in 1..(j - 1) : t[h] # Newline
         IN  <<SubSeq(t, 1, p - 1)>> \o split(SubSeq(t, p + 1, Len(t)))

\* '\n'.join(ls)
RECURSIVE join(_)
join(ls) ==
    IF Len(ls) = 0 THEN <<>>
    ELSE IF Len(ls) = 1 THEN ls[1]
    ELSE ls[1] \o <<Newline>> \o join(Tail(ls))

\* what was printed or read: a page of lines, the whole text, or a key
PageEv(ls) == [ev |-> "page", lines |-> ls]
PrintEv(t) == [ev |-> "print", lines |-> <<t>>]
KeyEv == [ev |-> "key", lines |-> <<>>]

\* more(): the lines of the page that starts at line idx
more_page(ls, idx, st) == PySlice(ls, idx, idx + st)

\* a variant of more_wait that also waits after a page ending the text
more_wait_le(idx, st, n) == idx + st <= n

\* more(): whether a key is read after the page that starts at line idx
more_wait(idx, st, n) == idx + st < n

\* more(): the page at idx is printed; then a key is awaited or more() ends
more_pass(idx) ==
    /\ i' = idx
    /\ IF more_wait(idx, step', Len(lines'))
       THEN pc' = "key" /\ floats' = {"footer"}
       ELSE pc' = "done" /\ floats' = {}

\* more(), up to the first read
more ==
    /\ fn = "more" /\ pc = "call"
    /\ IF term_mode
       THEN /\ lines' = split(text)
            /\ footer' = <<"(more)">>
            /\ step' = height - 1
            /\ IF height - 1 = 0
               THEN \* range(0, len(lines), 0)
                    /\ pc' = "raised" /\ exc' = "ValueError"
                    /\ floats' = {"footer"}
                    /\ UNCHANGED <<i, out>>
               ELSE /\ out' = <<PageEv(more_page(split(text), 0, height - 1))>>
                    /\ more_pass(0)
                    /\ exc' = exc
       ELSE /\ out' = <<PrintEv(text)>>
            /\ pc' = "done"
            /\ UNCHANGED <<lines, footer, step, i, floats, exc>>
    /\ UNCHANGED <<ctlVars, ret, k, line, optVars, argVars, cursor,
                   cursor_max, content, seen>>

\* more(): a key, the next page and what follows it
more_key(key) ==
    /\ fn = "more" /\ term_mode /\ pc = "key"
    /\ k' = key
    /\ out' = out \o <<KeyEv, PageEv(more_page(lines, i + step, step))>>
    /\ UNCHANGED <<lines, step>>
    /\ more_pass(i + step)
    /\ UNCHANGED <<ctlVars, ret, exc, line, optVars, argVars, cursor,
                   cursor_max, content, footer, seen>>

\* less.get_end_index
get_end_index(c, st, max) == IF c + st < max THEN c + st ELSE -1

\* less.getprintable
getprintable(ls, start, end) == join(PySlice(ls, start, end)) \o <<Newline>>

\* a variant of update_footer that shows "(END)" only past c_max
update_footer_gt(c, c_max, fname) ==
    IF c > c_max THEN <<"(END)">>
    ELSE IF c = 0 THEN <<"(more)">>
    ELSE IF fname # None THEN <<": ", Val(fname)>>
    ELSE <<":">>

\* less.update_footer: the text it gives the footer
update_footer(c, c_max, fname) ==
    IF c >= c_max THEN <<"(END)">>
    ELSE IF c = 0 THEN <<"(more)">>
    ELSE IF fname # None THEN <<": ", Val(fname)>>
    ELSE <<":">>

\* a variant of less_cursor that scrolls down while c <= c_max
less_cursor_le(key, c, c_max) ==
    IF key \in {"<down>", "<enter>", "<space>", "<right>"}
    THEN (IF c <= c_max THEN c + 1 ELSE c)
    ELSE IF key \in {"<up>", "<backspace>", "<left>"}
    THEN (IF c > 0 THEN c - 1 ELSE c)
    ELSE c

\* a variant of less_cursor that scrolls down two lines at a time
less_cursor_jump(key, c, c_max) ==
    IF key \in {"<down>", "<enter>", "<space>", "<right>"}
    THEN (IF c < c_max THEN c + 2 ELSE c)
    ELSE IF key \in {"<up>", "<backspace>", "<left>"}
    THEN (IF c > 0 THEN c - 1 ELSE c)
    ELSE c

\* less(): the cursor a key leaves
less_cursor(key, c, c_max) ==
    IF key \in {"<down>", "<enter>", "<space>", "<right>"}
    THEN (IF c < c_max THEN c + 1 ELSE c)
    ELSE IF key \in {"<up>", "<backspace>", "<left>"}
    THEN (IF c > 0 THEN c - 1 ELSE c)
    ELSE c

\* a variant of less_deleted that forgets the footer
less_deleted_content == {"content"}

\* less(): the keys that end the loop, and the regions deleted then
less_quit == {"q", "<escape>"}
less_deleted == {"content", "footer"}

\* less(): the indices of the lines in lines[cursor:end], the frame at c
less_shown(ls, st, c) ==
    LET idx == [j \in 1..Len(ls) |-> j - 1]
        part == PySlice(idx, c, get_end_index(c, st, Len(ls)))
    IN  {part[j] : j \in 1..Len(part)}

\* less(): one frame, drawn at the top of the loop
less_frame(ls, st, c, c_max) ==
    /\ content' = getprintable(ls, c, get_end_index(c, st, Len(ls)))
    /\ seen' = seen \cup less_shown(ls, st, c)
    /\ footer' = update_footer(c, c_max, filename)

\* less(), up to the first read
less ==
    /\ fn = "less" /\ pc = "call"
    /\ IF term_mode
       THEN /\ lines' = split(text)
            /\ step' = height - 1
            /\ floats' = {"content", "footer"}
            /\ cursor' = 0
            /\ cursor_max' = Len(split(text)) - (height - 1) - 1
            /\ less_frame(lines', step', cursor', cursor_max')
            /\ pc' = "key"
            /\ out' = out
       ELSE /\ out' = <<PrintEv(text)>>
            /\ pc' = "done"
            /\ UNCHANGED <<lines, step, floats, cursor, cursor_max, content,
                           footer, seen>>
    /\ UNCHANGED <<ctlVars, ret, exc, k, line, optVars, argVars, i>>

\* less(): a key and what follows it, up to the next read or the return
less_key(key) ==
    /\ fn = "less" /\ term_mode /\ pc = "key"
    /\ k' = key
    /\ cursor' = less_cursor(key, cursor, cursor_max)
    /\ IF key \in less_quit
       THEN /\ floats' = floats \ less_deleted
            /\ pc' = "done"
            /\ UNCHANGED <<content, footer, seen>>
       ELSE /\ less_frame(lines, step, cursor', cursor_max)
            /\ pc' = "key"
            /\ floats' = floats
    /\ UNCHANGED <<ctlVars, ret, exc, line, optVars, argVars, lines, step, i,
                   cursor_max, out>>

\* ------------------------------------------------------------------ yesno
\* the keys fed to yesno(): the letters it knows, and keys it does not
YesnoKeys == {"y", "Y", "n", "N", "<left>", "<right>", "<enter>", "<up>",
              "<escape>", "x"}

yes == <<"yes">>
no == <<"no">>
\* term.text.bold('Yes'), term.text.bold('No')
yesfocus == <<"bold", "Yes">>
nofocus == <<"bold", "No">>

\* str.lower(), on the letters of the model's lines
lower_char(c) ==
    CASE c = "Y" -> "y" [] c = "E" -> "e" [] c = "S" -> "s"
      [] c = "N" -> "n" [] c = "O" -> "o" [] OTHER -> c

\* a variant of lower that leaves the letters as typed
lower_none(s) == s

lower(s) == [j \in 1..Len(s) |-> lower_char(s[j])]

\* the lines fed to yesno(): y, yes, n and no in every letter case, the
\* empty line and lines that are none of these
RECURSIVE AnyCase(_)
AnyCase(w) ==
    IF Len(w) = 0 THEN {<<>>}
    ELSE {<<c>> \o r : c \in {u \in {"y", "e", "s", "n", "o", "Y", "E", "S",
                                     "N", "O"} : lower_char(u) = w[1]},
                       r \in AnyCase(Tail(w))}

YesnoLines ==
    AnyCase(<<"y">>) \cup AnyCase(<<"y", "e", "s">>) \cup AnyCase(<<"n">>)
      \cup AnyCase(<<"n", "o">>)
      \cup {<<>>, <<"x">>, <<"y", "e">>, <<"o", "n">>, <<" ", "y">>,
            <<"y", "e", "s", "s">>}

\* a variant of yesno_default_ok that accepts every default
yesno_default_any(d) == TRUE

\* isinstance(default, (bool, types.NoneType))
yesno_default_ok(d) == d # Wrong

\* yesno(), up to the first read
yesno ==
    /\ fn = "yesno" /\ pc = "call"
    /\ IF ~yesno_default_ok(default)
       THEN /\ pc' = "raised" /\ exc' = "ValueError"
            /\ UNCHANGED <<cur, hy, hn>>
       ELSE IF term_mode
       THEN /\ hy' = (IF default = Some(TRUE) THEN yesfocus ELSE yes)
            /\ hn' = (IF default = Some(FALSE) THEN nofocus ELSE no)
            /\ cur' = default
            /\ pc' = "key" /\ exc' = exc
       ELSE /\ pc' = "line" /\ exc' = exc
            /\ UNCHANGED <<cur, hy, hn>>
    /\ UNCHANGED <<ctlVars, ret, k, line, opts, default, ds, hs, required,
                   twin, hlVars, text, height, filename, pagerVars, out>>

\* a variant of yesno_move whose n/N/<right> leaves yes highlighted
yesno_move_stale(key, c, y, n) ==
    IF key \in {"y", "Y", "<left>"} /\ c # Some(TRUE)
    THEN [cur |-> Some(TRUE), hy |-> yesfocus, hn |-> no]
    ELSE IF key \in {"n", "N", "<right>"} /\ c # Some(FALSE)
    THEN [cur |-> Some(FALSE), hy |-> y, hn |-> nofocus]
    ELSE [cur |-> c, hy |-> y, hn |-> n]

\* the selection and the two texts a key leaves
yesno_move(key, c, y, n) ==
    IF key \in {"y", "Y", "<left>"} /\ c # Some(TRUE)
    THEN [cur |-> Some(TRUE), hy |-> yesfocus, hn |-> no]
    ELSE IF key \in {"n", "N", "<right>"} /\ c # Some(FALSE)
    THEN [cur |-> Some(FALSE), hy |-> yes, hn |-> nofocus]
    ELSE [cur |-> c, hy |-> y, hn |-> n]

\* one pass of the interactive loop of yesno()
yesno_key(key) ==
    /\ fn = "yesno" /\ term_mode /\ pc = "key"
    /\ k' = key
    /\ LET moved == yesno_move(key, cur, hy, hn)
       IN  /\ cur' = moved.cur /\ hy' = moved.hy /\ hn' = moved.hn
           /\ IF key = "<enter>" /\ cur # None
              THEN pc' = "done" /\ ret' = cur
              ELSE UNCHANGED <<pc, ret>>
    /\ UNCHANGED <<ctlVars, exc, line, opts, default, ds, hs, required, twin,
                   hlVars, text, height, filename, pagerVars, out>>

\* one pass of the non-interactive loop of yesno()
yesno_line(l) ==
    /\ fn = "yesno" /\ ~term_mode /\ pc = "line"
    /\ Len(out) < MaxTries
    /\ line' = l
    /\ LET opt == lower(l)
       IN  IF opt = <<>> /\ default # None
           THEN pc' = "done" /\ ret' = default /\ out' = out
           ELSE IF opt \in {<<"y">>, <<"y", "e", "s">>}
           THEN pc' = "done" /\ ret' = Some(TRUE) /\ out' = out
           ELSE IF opt \in {<<"n">>, <<"n", "o">>}
           THEN pc' = "done" /\ ret' = Some(FALSE) /\ out' = out
           ELSE /\ out' = Append(out, PrintEv(<<"Please answer yes or no">>))
                /\ UNCHANGED <<pc, ret>>
    /\ UNCHANGED <<ctlVars, exc, k, optVars, argVars, pagerVars>>

\* ------------------------------------------------------- ask and askpass
\* the lines raw_input() and getpass() may deliver
AskLines == Strings({"a", " "}, MaxLine)

\* str.strip() of a line whose only whitespace is the blank
RECURSIVE lstrip(_)
lstrip(s) == IF Len(s) > 0 /\ Head(s) = " " THEN lstrip(Tail(s)) ELSE s

RECURSIVE rstrip(_)
rstrip(s) ==
    IF Len(s) > 0 /\ s[Len(s)] = " "
    THEN rstrip(SubSeq(s, 1, Len(s) - 1)) ELSE s

strip(s) == rstrip(lstrip(s))

\* the truth value of the default: neither None nor the empty string
truthy(d) == d # None /\ Val(d) # <<>>

\* a prompt written by raw_input() or getpass(): its cue and the default shown
PromptEv(qm, cdef) == [ev |-> "prompt", lines |-> <<<<qm>>, cdef>>]

\* the part of the state that ask() and askpass() change
AskState == [pc |-> pc, ret |-> ret, exc |-> exc, i |-> i, out |-> out]
AskApply(st) ==
    /\ pc' = st.pc /\ ret' = st.ret /\ exc' = st.exc /\ i' = st.i
    /\ out' = st.out

\* what ask() and askpass() leave alone, the line read and the twin aside
askRest == <<ctlVars, k, optVars, text, height, filename, required, hy, hn,
             hlVars, lines, step, cursor, cursor_max, content, footer,
             floats, seen>>

\* isinstance(required, (bool, types.NoneType))
ask_required_ok(r) == r # Wrong

\* '[{}] '.format(default) when the default is true, else ''
ask_cdef(d) == IF truthy(d) THEN <<"[">> \o Val(d) \o <<"] ">> ELSE <<>>

\* ask(), up to the first raw_input()
ask_call(st, d, r) ==
    IF ~ask_required_ok(r)
    THEN [st EXCEPT !.pc = "raised", !.exc = "ValueError"]
    ELSE [st EXCEPT !.pc = "line",
                    !.out = <<PromptEv("bold_cyan ?", ask_cdef(d))>>]

\* a variant of ask_loop that gives up once the red cue has been shown
ask_loop_limited(st, resp, d) ==
    IF resp = <<>> /\ st.i < 2
    THEN [st EXCEPT !.pc = "retry", !.i = st.i + 1,
                    !.out = Append(st.out,
                                   PromptEv("bold_yellow ?", ask_cdef(d)))]
    ELSE [st EXCEPT !.pc = "done", !.ret = Some(resp)]

\* ask(): the loop of required=True entered with resp, up to the next read
\* or to the return
ask_loop(st, resp, d) ==
    IF resp = <<>>
    THEN IF st.i < 2
         THEN [st EXCEPT !.pc = "retry", !.i = st.i + 1,
                         !.out = Append(st.out,
                                        PromptEv("bold_yellow ?", ask_cdef(d)))]
         ELSE [st EXCEPT !.pc = "retry",
                         !.out = Append(st.out,
                                        PromptEv("bold_red ?!", ask_cdef(d)))]
    ELSE [st EXCEPT !.pc = "done", !.ret = Some(resp)]

\* ask(): raw_input() returns the line l
ask_read(st, l, d, r) ==
    LET resp == strip(l)
    IN  IF st.pc = "line"
        THEN IF truthy(d) /\ resp = <<>>
             THEN [st EXCEPT !.pc = "done", !.ret = d]
             ELSE IF r = Some(TRUE)
             THEN ask_loop(st, resp, d)
             ELSE [st EXCEPT !.pc = "done", !.ret = Some(resp)]
        ELSE ask_loop(st, resp, d)

\* '[default] ' when the default is true, else ''
askpass_cdef(d) == IF truthy(d) THEN <<"[default] ">> ELSE <<>>

\* askpass(), up to the first getpass()
askpass_call(st, d, r) ==
    IF ~ask_required_ok(r)
    THEN [st EXCEPT !.pc = "raised", !.exc = "ValueError"]
    ELSE [st EXCEPT !.pc = "line",
                    !.out = <<PromptEv("bold_magenta ?", askpass_cdef(d))>>]

\* a variant of askpass_resp that keeps the blanks around the line
askpass_resp_raw(l) == l

\* getpass(...).strip()
askpass_resp(l) == strip(l)

\* askpass(): the loop of required=True entered with resp
askpass_loop(st, resp) ==
    IF resp = <<>>
    THEN [st EXCEPT !.pc = "retry",
                    !.out = Append(st.out, PromptEv("bold_magenta ?", <<>>))]
    ELSE [st EXCEPT !.pc = "done", !.ret = Some(resp)]

\* askpass(): getpass() returns the line l
askpass_read(st, l, d, r) ==
    LET resp == askpass_resp(l)
    IN  IF st.pc = "line"
        THEN IF truthy(d) /\ resp = <<>>
             THEN [st EXCEPT !.pc = "done", !.ret = d]
             ELSE IF r = Some(TRUE)
             THEN askpass_loop(st, resp)
             ELSE [st EXCEPT !.pc = "done", !.ret = Some(resp)]
        ELSE askpass_loop(st, resp)

Reading(p) == p \in {"line", "retry"}

ask ==
    /\ fn = "ask" /\ pc = "call"
    /\ AskApply(ask_call(AskState, default, required))
    /\ UNCHANGED <<askRest, line, twin>>

ask_line(l) ==
    /\ fn = "ask" /\ Reading(pc) /\ Len(out) <= MaxTries
    /\ line' = l
    /\ AskApply(ask_read(AskState, l, default, required))
    /\ UNCHANGED <<askRest, twin>>

askpass ==
    /\ fn = "askpass" /\ pc = "call"
    /\ AskApply(askpass_call(AskState, default, required))
    /\ UNCHANGED <<askRest, line, twin>>

askpass_line(l) ==
    /\ fn = "askpass" /\ Reading(pc) /\ Len(out) <= MaxTries
    /\ line' = l
    /\ AskApply(askpass_read(AskState, l, default, required))
    /\ UNCHANGED <<askRest, twin>>

\* ask() and askpass() called with the same arguments
ask_askpass ==
    /\ fn = "ask+askpass" /\ pc = "call"
    /\ AskApply(ask_call(AskState, default, required))
    /\ twin' = askpass_call(twin, default, required)
    /\ UNCHANGED <<askRest, line>>

\* ask() and askpass() given the same line: each reads it if it is reading
ask_askpass_line(l) ==
    /\ fn = "ask+askpass" /\ (Reading(pc) \/ Reading(twin.pc))
    /\ Len(out) <= MaxTries /\ Len(twin.out) <= MaxTries
    /\ line' = l
    /\ IF Reading(pc)
       THEN AskApply(ask_read(AskState, l, default, required))
       ELSE UNCHANGED <<pc, ret, exc, i, out>>
    /\ twin' = (IF Reading(twin.pc)
                THEN askpass_read(twin, l, default, required)
                ELSE twin)
    /\ UNCHANGED askRest

\* -------------------------------------------------------------- highlight
\* 'xterm' in environ['TERM']
has_xterm(t) == t \in {"xterm", "xterm-256color"}

\* the formatter chosen for TERM
formatter(t) ==
    IF has_xterm(t) THEN "Terminal256Formatter" ELSE "TerminalFormatter"

\* hl(src, lexer, formatter): the text led by the formatter's colour code
hl(s, f) == <<f>> \o s

\* what the handler of ClassNotFound prints
no_lexer_notice == PrintEv(<<"No lexer found... Print without formatting.">>)

\* highlight(): what follows the handler of ClassNotFound: environ['TERM'] is
\* read, then lexer, which the failed assignment left unbound
highlight_fallback(t) ==
    IF t = None THEN [pc |-> "raised", exc |-> "KeyError"]
    ELSE [pc |-> "raised", exc |-> "UnboundLocalError"]

\* highlight(), up to its return or to the call of the pager
highlight ==
    /\ fn = "highlight" /\ pc = "call"
    /\ IF src = <<>>
       THEN /\ pc' = "done"
            /\ UNCHANGED <<fn, exc, text, filename, out>>
       ELSE IF lexer = "ClassNotFound"
       THEN /\ out' = <<no_lexer_notice, PrintEv(src)>>
            /\ pc' = highlight_fallback(TERM).pc
            /\ exc' = highlight_fallback(TERM).exc
            /\ UNCHANGED <<fn, text, filename>>
       ELSE IF TERM = None
       THEN /\ pc' = "raised" /\ exc' = "KeyError"
            /\ UNCHANGED <<fn, text, filename, out>>
       ELSE LET highlighted == hl(src, formatter(Val(TERM)))
            IN  IF mode = Some("more")
                THEN /\ fn' = "more" /\ text' = highlighted
                     /\ UNCHANGED <<pc, exc, filename, out>>
                ELSE IF mode = Some("less")
                THEN /\ fn' = "less" /\ text' = highlighted
                     /\ filename' = Some("f")
                     /\ UNCHANGED <<pc, exc, out>>
                ELSE /\ out' = <<PrintEv(highlighted)>>
                     /\ pc' = "done"
                     /\ UNCHANGED <<fn, exc, text, filename>>
    /\ UNCHANGED <<term_mode, ret, k, line, optVars, height, promptVars,
                   hlVars, pagerVars>>

Next ==
    \/ highlight
    \/ ask
    \/ \E l \in AskLines : ask_line(l)
    \/ askpass
    \/ \E l \in AskLines : askpass_line(l)
    \/ ask_askpass
    \/ \E l \in AskLines : ask_askpass_line(l)
    \/ yesno
    \/ \E key \in YesnoKeys : yesno_key(key)
    \/ \E l \in YesnoLines : yesno_line(l)
    \/ options
    \/ \E key \in Keys : options_key(key)
    \/ \E l \in Lines : options_line(l)
    \/ more
    \/ \E key \in Keys : more_key(key)
    \/ less
    \/ \E key \in Keys : less_key(key)

Spec == Init /\ [][Next]_vars

\* ------------------------------------------------------------- the claims
Interactive(f) == fn = f /\ term_mode

\* the data model's invariant on the default of options()
DefaultValid ==
    \/ default = None
    \/ default # Wrong /\ Val(default) \in 0..(Len(opts) - 1)

\* cursor_max as the specification defines it
LessCursorMax == Max(0, Len(lines) - step - 1)

\* the lines with indices in [c, min(c + step, total)), as getprintable joins
LinesFrom(c) ==
    join(SubSeq(lines, c + 1, Min(c + step, Len(lines)))) \o <<Newline>>

RECURSIVE Concat(_)
Concat(evs) == IF Len(evs) = 0 THEN <<>> ELSE evs[1].lines \o Concat(Tail(evs))

PageEvents(evs) == SelectSeq(evs, LAMBDA e : e.ev = "page")
KeyEvents(evs) == SelectSeq(evs, LAMBDA e : e.ev = "key")
Ceil(a, b) == (a + b - 1) \div b

\* C1: options() called with a non-empty option list (and a default that is
\* absent or a valid index) returns, in either terminal mode, an integer in
\* [0, len(opts) - 1].
C1_ReturnInRange ==
    (fn = "options" /\ pc = "done" /\ DefaultValid)
        => (ret # None /\ Val(ret) \in 0..(Len(opts) - 1))

\* C2: in interactive options() started with default absent or a valid index,
\* whatever keys were read, the selection is unset or in [0, len(opts) - 1].
C2_SelectionInRange ==
    (Interactive("options") /\ pc # "call" /\ DefaultValid)
        => (cur = None \/ Val(cur) \in 0..(Len(opts) - 1))

\* C3: in the interactive less() loop with step >= 1, the cursor is always in
\* [0, cursor_max], cursor_max being max(0, total_lines - step - 1).
C3_CursorInRange ==
    (Interactive("less") /\ pc \in {"key", "done"} /\ step >= 1)
        => cursor \in 0..LessCursorMax

C3_Witness ==
    /\ Interactive("less") /\ pc = "key" /\ step >= 1
    /\ k = "<down>" /\ cursor = LessCursorMax /\ cursor >= 2

\* C4: in every frame of interactive less() the footer is "(END)" exactly when
\* cursor = cursor_max; otherwise it is "(more)" at cursor 0, and otherwise
\* ": <filename>" when a filename was given and ":" when none was.
C4_Footer ==
    (Interactive("less") /\ pc = "key")
        => /\ (footer = <<"(END)">>) <=> (cursor = LessCursorMax)
           /\ cursor # LessCursorMax =>
                footer = IF cursor = 0 THEN <<"(more)">>
                         ELSE IF filename # None THEN <<": ", Val(filename)>>
                         ELSE <<":">>

C4_Witness ==
    /\ Interactive("less") /\ pc = "key"
    /\ cursor > 0 /\ cursor < LessCursorMax /\ footer = <<": ", "f">>

\* C5: in every frame of interactive less() the content region shows exactly
\* the lines with indices in [cursor, min(cursor + step, total_lines)), the
\* last line of the text included when cursor + step >= total_lines.
C5_ContentLines ==
    (Interactive("less") /\ pc = "key") => content = LinesFrom(cursor)

\* C6: in interactive less() a scroll-down key moves the cursor up by exactly
\* one below cursor_max and not at all at cursor_max, a scroll-up key moves it
\* down by exactly one above 0 and not at all at 0, any key that is neither
\* these nor q/<escape> leaves the cursor alone and the loop running, and no
\* key changes lines, step or cursor_max.
C6_KeyEffect ==
    [][(Interactive("less") /\ pc = "key")
        => /\ k' \in {"<down>", "<enter>", "<space>", "<right>"}
                => cursor' = IF cursor < LessCursorMax THEN cursor + 1
                             ELSE cursor
           /\ k' \in {"<up>", "<backspace>", "<left>"}
                => cursor' = IF cursor > 0 THEN cursor - 1 ELSE cursor
           /\ k' \notin {"<down>", "<enter>", "<space>", "<right>", "<up>",
                         "<backspace>", "<left>", "q", "<escape>"}
                => cursor' = cursor /\ pc' = "key"
           /\ lines' = lines /\ step' = step /\ cursor_max' = cursor_max]_vars

C6_Witness ==
    /\ Interactive("less") /\ pc = "key"
    /\ k = "x" /\ cursor >= 1 /\ cursor < LessCursorMax

\* C7: interactive more() of a text of T lines with step >= 1 prints pages and
\* reads keys in alternation, starting and ending with a page; when it returns
\* it has printed ceil(T / step) pages that hold the lines of the text, each
\* once and in order, and has read ceil(T / step) - 1 keys.
C7_MorePages ==
    (Interactive("more") /\ pc \in {"key", "done"} /\ step >= 1)
        => /\ Len(out) % 2 = 1
           /\ \A j \in 1..Len(out) :
                out[j].ev = IF j % 2 = 1 THEN "page" ELSE "key"
           /\ pc = "key" => Len(PageEvents(out)) < Ceil(Len(lines), step)
           /\ pc = "done" =>
                /\ Len(PageEvents(out)) = Ceil(Len(lines), step)
                /\ Len(KeyEvents(out)) = Ceil(Len(lines), step) - 1
                /\ Concat(PageEvents(out)) = lines

C7_Witness ==
    /\ Interactive("more") /\ pc = "done"
    /\ Len(lines) = 5 /\ step = 2
    /\ Len(PageEvents(out)) = 3 /\ Len(KeyEvents(out)) = 2

\* C8: when an interactive more() or less() call has returned, no floating
\* region it created exists any more, and less() has returned only on q or
\* <escape>; until then the regions it created exist.
C8_RegionsReleased ==
    /\ (fn \in {"more", "less"} /\ term_mode /\ pc = "done")
         => floats = {} /\ (fn = "less" => k \in {"q", "<escape>"})
    /\ (fn \in {"more", "less"} /\ term_mode /\ pc = "key")
         => floats = IF fn = "less" THEN {"content", "footer"}
                     ELSE {"footer"}

C8_Witness ==
    /\ Interactive("less") /\ pc = "done"
    /\ k = "<escape>" /\ cursor > 0 /\ floats = {}

\* C9: in interactive options(), a digit typed while the buffer followed by
\* that digit reads as a number n in [1, len(opts)] is appended and selects
\* n - 1, and (the default being valid) the loop goes on; so, from the empty
\* buffer, the digits of any n in [1, len(opts)] typed in order leave the
\* buffer equal to n and the selection equal to n - 1.
C9_DigitsResolve ==
    [][(Interactive("options") /\ pc = "key" /\ k' \in Digits
          /\ int(ds \o <<k'>>) \in 1..Len(opts))
        => /\ ds' = ds \o <<k'>>
           /\ cur' = Some(int(ds \o <<k'>>) - 1)
           /\ DefaultValid => pc' = "key"]_vars

C9_Witness ==
    /\ Interactive("options") /\ pc = "key"
    /\ k = "0" /\ ds = <<"1", "0">> /\ cur = Some(9)

\* C10: in interactive options() (the default being valid), a '0' that cannot
\* be appended to the numeric buffer is ignored: the buffer is unchanged and
\* the loop goes on without an error, the buffer being empty or not.
C10_ZeroIgnored ==
    [][(Interactive("options") /\ pc = "key" /\ DefaultValid /\ k' = "0"
          /\ int(ds \o <<"0">>) \notin 1..Len(opts))
        => ds' = ds /\ pc' = "key" /\ exc' = ""]_vars

\* C11: in non-interactive options() with a default that is a valid index in
\* [0, len(opts) - 1], an empty line makes the call return on that read, with
\* the default; a line that is neither empty nor an integer in [1, len(opts)]
\* does not make the call return.
C11_EmptyLineDefault ==
    [][(fn = "options" /\ ~term_mode /\ pc = "line"
          /\ default # None /\ Val(default) \in 0..(Len(opts) - 1))
        => /\ line' = <<>> => pc' = "done" /\ ret' = default
           /\ (line' # <<>>
                 /\ ~(int_ok(line') /\ int(line') \in 1..Len(opts)))
                => pc' = "line"]_vars

\* C12: interactive options() returns only on <enter> or <right> read while a
\* selection is set, and then returns that selection; <enter> or <right> read
\* with no selection changes nothing and the loop reads the next key.
C12_CommitOnly ==
    [][(Interactive("options") /\ pc = "key")
        => /\ pc' = "done"
                => k' \in {"<enter>", "<right>"} /\ cur # None /\ ret' = cur
           /\ (k' \in {"<enter>", "<right>"} /\ cur # None) => pc' = "done"
           /\ (k' \in {"<enter>", "<right>"} /\ cur = None)
                => /\ pc' = "key" /\ ret' = ret /\ exc' = exc
                   /\ cur' = cur /\ ds' = ds /\ hs' = hs]_vars

C12_Witness ==
    /\ Interactive("options") /\ pc = "done" /\ default = None
    /\ k = "<right>" /\ ret = cur /\ cur = Some(2)

\* C13: in interactive options() (at least one option), <up> and <down> move
\* the selection by exactly one, clamped to [0, len(opts) - 1]; either of them
\* read with no selection sets it to 0; ctrl+up sets it to 0 and ctrl+down to
\* len(opts) - 1; with a valid default the loop goes on.
C13_ArrowKeys ==
    [][(Interactive("options") /\ pc = "key" /\ Len(opts) >= 1)
        => LET last == Len(opts) - 1
               Clamp(x) == Max(0, Min(last, x))
           IN  /\ k' = "<up>" =>
                    cur' = IF cur = None THEN Some(0)
                           ELSE Some(Clamp(Val(cur) - 1))
               /\ k' = "<down>" =>
                    cur' = IF cur = None THEN Some(0)
                           ELSE Some(Clamp(Val(cur) + 1))
               /\ k' = "C-<up>" => cur' = Some(0)
               /\ k' = "C-<down>" => cur' = Some(last)
               /\ (k' \in {"<up>", "<down>", "C-<up>", "C-<down>"}
                     /\ DefaultValid) => pc' = "key"]_vars

C13_Witness ==
    /\ Interactive("options") /\ pc = "key" /\ default = None
    /\ Len(opts) >= 3 /\ k = "<down>" /\ cur = Some(Len(opts) - 1)

\* the upper-case letter of a lower-case one
Upper(c) ==
    CASE c = "y" -> "Y" [] c = "e" -> "E" [] c = "s" -> "S"
      [] c = "n" -> "N" [] c = "o" -> "O"

\* l is the word w in some letter case
InAnyCase(l, w) ==
    Len(l) = Len(w) /\ \A j \in 1..Len(w) : l[j] \in {w[j], Upper(w[j])}

IsYes(l) == InAnyCase(l, <<"y">>) \/ InAnyCase(l, <<"y", "e", "s">>)
IsNo(l) == InAnyCase(l, <<"n">>) \/ InAnyCase(l, <<"n", "o">>)

\* C14: non-interactive yesno(): an empty line returns the default when one
\* is set; y or yes in any letter case returns True, n or no in any letter
\* case returns False; any other line (the empty one with no default too)
\* does not end the call: the error message is printed and another line is
\* read, however many lines were refused before.
C14_YesnoLine ==
    [][(fn = "yesno" /\ ~term_mode /\ pc = "line")
        => /\ (line' = <<>> /\ default # None)
                => pc' = "done" /\ ret' = default /\ out' = out
           /\ IsYes(line') => pc' = "done" /\ ret' = Some(TRUE) /\ out' = out
           /\ IsNo(line') => pc' = "done" /\ ret' = Some(FALSE) /\ out' = out
           /\ (~IsYes(line') /\ ~IsNo(line')
                 /\ ~(line' = <<>> /\ default # None))
                => /\ pc' = "line" /\ ret' = None
                   /\ out' = Append(out, PrintEv(<<"Please answer yes or no">>))
       ]_vars

C14_Witness ==
    /\ fn = "yesno" /\ ~term_mode /\ pc = "done"
    /\ Len(out) = 3 /\ line = <<"N", "o">> /\ ret = Some(FALSE)

\* C15: interactive yesno() returns only on <enter> read while a selection is
\* set, and returns that selection; <enter> read with no selection changes
\* nothing; at every key read the option shown highlighted is exactly the
\* selection, and none is when there is no selection.
C15_YesnoKey ==
    [][(Interactive("yesno") /\ pc = "key")
        => /\ (hy = yesfocus) <=> (cur = Some(TRUE))
           /\ (hn = nofocus) <=> (cur = Some(FALSE))
           /\ hy \in {yes, yesfocus} /\ hn \in {no, nofocus}
           /\ pc' = "done" => k' = "<enter>" /\ cur # None /\ ret' = cur
           /\ (k' = "<enter>" /\ cur # None) => pc' = "done"
           /\ (k' = "<enter>" /\ cur = None)
                => /\ pc' = "key" /\ ret' = ret /\ cur' = cur
                   /\ hy' = hy /\ hn' = hn]_vars

C15_Witness ==
    /\ Interactive("yesno") /\ pc = "done" /\ default = Some(TRUE)
    /\ k = "<enter>" /\ ret = Some(FALSE) /\ hy = yes /\ hn = nofocus

\* a line of blanks only (the empty line is one)
Blank(l) == \A j \in 1..Len(l) : l[j] = " "

\* r is the line l without the blanks at its two ends
IsStripOf(r, l) ==
    \E a, b \in 0..Len(l) :
        /\ a + b <= Len(l)
        /\ \A j \in 1..a : l[j] = " "
        /\ \A j \in (Len(l) - b + 1)..Len(l) : l[j] = " "
        /\ r = SubSeq(l, a + 1, Len(l) - b)
        /\ (r = <<>> \/ (r[1] # " " /\ r[Len(r)] # " "))

\* C16 as stated: ask() returns the default on an empty line when a non-empty
\* default exists; with required=True and no default it reads again after an
\* empty line, returns the first non-empty line, and never returns the empty
\* string.
C16_FirstNonEmptyLine ==
    [][(fn = "ask" /\ Reading(pc))
        => /\ (line' = <<>> /\ truthy(default))
                => pc' = "done" /\ ret' = default
           /\ (required = Some(TRUE) /\ ~truthy(default))
                => /\ line' = <<>> => pc' = "retry"
                   /\ line' # <<>> => pc' = "done" /\ ret' = Some(line')
                   /\ pc' = "done" => ret' # Some(<<>>)]_vars

\* C16, amended: the line read counts without the blanks at its two ends.
\* ask() returns the default on a blank line when a non-empty default exists;
\* with required=True and no default it reads again after every blank line,
\* whatever the cue already shown, returns the first line that is not blank,
\* stripped of the blanks at its ends, and never returns the empty string.
C16_FirstNonBlankLine ==
    [][(fn = "ask" /\ Reading(pc))
        => /\ (Blank(line') /\ truthy(default))
                => pc' = "done" /\ ret' = default
           /\ (required = Some(TRUE) /\ ~truthy(default))
                => /\ Blank(line')
                        => /\ pc' = "retry" /\ ret' = None
                           /\ Len(out') = Len(out) + 1
                   /\ ~Blank(line')
                        => /\ pc' = "done" /\ ret' # None
                           /\ IsStripOf(Val(ret'), line')
                           /\ out' = out
                   /\ pc' = "done" => ret' # Some(<<>>)]_vars

C16_Witness ==
    /\ fn = "ask" /\ pc = "done" /\ required = Some(TRUE) /\ default = None
    /\ i = 2 /\ Len(out) = 4 /\ out[4].lines[1] = <<"bold_red ?!">>
    /\ line = <<" ", "a">> /\ ret = Some(<<"a">>)

\* C17: for every default, every valid required flag and every sequence of
\* lines, askpass() and ask() given the same lines are at every moment both
\* reading or both returned, after the same number of prompts, and return the
\* same string.
C17_AskpassLikeAsk ==
    (fn = "ask+askpass" /\ required # Wrong /\ pc # "call")
        => /\ twin.pc = pc /\ twin.ret = ret /\ twin.exc = exc
           /\ Len(twin.out) = Len(out)

C17_Witness ==
    /\ fn = "ask+askpass" /\ pc = "done" /\ twin.pc = "done"
    /\ required = Some(TRUE) /\ default = Some(<<>>)
    /\ Len(out) = 3 /\ line = <<"a", " ">>
    /\ ret = Some(<<"a">>) /\ twin.ret = Some(<<"a">>)

\* C18: a call of ask() or askpass() whose required is neither a boolean nor
\* None, of yesno() whose default is neither a boolean nor None, or of
\* options() whose default is neither an integer nor None, ends at once with
\* ValueError in both terminal modes: nothing was read, nothing was written,
\* no prompt was shown.
BadArgument ==
    \/ fn \in AskFunctions /\ required = Wrong
    \/ fn \in {"yesno", "options"} /\ default = Wrong

C18_InvalidArgument ==
    (BadArgument /\ pc # "call")
        => /\ pc = "raised" /\ exc = "ValueError" /\ ret = None
           /\ k = "" /\ line = <<>> /\ out = <<>>
           /\ hs = <<>> /\ hy = <<>> /\ hn = <<>> /\ floats = {}
           /\ fn = "ask+askpass"
                => /\ twin.pc = "raised" /\ twin.exc = "ValueError"
                   /\ twin.out = <<>>

C18_Witness ==
    /\ fn = "yesno" /\ term_mode /\ default = Wrong
    /\ pc = "raised" /\ exc = "ValueError"

\* C19: when no lexer is found for a non-empty file, highlight() prints the
\* notice and the raw content, and returns normally: no exception, nothing
\* formatted, no pager.
C19_NoLexerReturns ==
    (src # <<>> /\ lexer = "ClassNotFound" /\ pc # "call")
        => /\ fn = "highlight" /\ pc = "done" /\ exc = ""
           /\ out = <<no_lexer_notice, PrintEv(src)>>

\* C20: in interactive less() with step >= 1, every line of the text, the
\* last one included, is shown in some frame the scroll keys reach: once the
\* cursor has been scrolled from 0 to cursor_max, every line has been shown
\* (stated for the texts whose last line is not empty, where it is visible).
C20_EveryLineShown ==
    (Interactive("less") /\ pc = "key" /\ step >= 1
       /\ cursor = LessCursorMax /\ lines[Len(lines)] # <<>>)
        => seen = 0..(Len(lines) - 1)

====
